---- MODULE Spec2Model ----
(***************************************************************************)
(* A model of the certificate and signing manager of the Thomson PDF       *)
(* Generator (src/core/signer.py, class PDFSigner): the manager's three    *)
(* fields, the files it reads and writes, and one action per public        *)
(* method.  Every method is one atomic step (the manager is used from one  *)
(* thread); an exception raised inside a method's try block ends the       *)
(* method with the assignments made so far kept, as in Python.             *)
(***************************************************************************)
EXTENDS Integers, Sequences, FiniteSets, TLC

(***************************************************************************)
(* Bounds of the model.                                                    *)
(***************************************************************************)
MaxCalls == 2
MaxCertCalls == 3
MaxPages == 2
MaxSigns == 2
MaxYears == 1
MaxRest == 2
MaxUs == 1
MaxDrift == 2
MaxNameLen == 3
MaxReads == 2

(***************************************************************************)
(* Python values.                                                          *)
(***************************************************************************)
None == "None"
NoKey == [by |-> "none", call |-> 0]
NoCert == [none |-> TRUE]
EmptyDict == <<>>

\* dict.get(key, default)
Get(dict, key, default) == IF key \in DOMAIN dict THEN dict[key] ELSE default

\* Python truthiness of an optional string or bytes value: None and the
\* empty value are false.
Truthy(v) == v # None /\ v # ""

(***************************************************************************)
(* datetime.  A datetime is a year, the rest of the date and time down to  *)
(* the second (rest) and the microseconds (us).  The rest 0 stands for a   *)
(* second of February 29, which only leap years have.                      *)
(***************************************************************************)
IsLeap(y) == y % 4 = 0 /\ (y % 100 # 0 \/ y % 400 = 0)

IsFeb29(rest) == rest = 0

Years == {2024 + k : k \in 0..MaxYears}

Instants == {t \in [year : Years, rest : 0..MaxRest, us : 0..MaxUs] :
               IsFeb29(t.rest) => IsLeap(t.year)}

\* a is not later than b
NotAfter(a, b) ==
    \/ a.year < b.year
    \/ a.year = b.year /\ a.rest < b.rest
    \/ a.year = b.year /\ a.rest = b.rest /\ a.us <= b.us

\* datetime.replace(year=y): ValueError for February 29 of a common year
replace_year(t, y) ==
    IF IsFeb29(t.rest) /\ ~IsLeap(y)
    THEN [ok |-> FALSE, value |-> t]
    ELSE [ok |-> TRUE, value |-> [t EXCEPT !.year = y]]

\* strftime('%Y-%m-%d %H:%M:%S'), and the second precision of the validity
\* fields of an encoded certificate: the microseconds are dropped.
strftime(t) == [year |-> t.year, rest |-> t.rest]

(***************************************************************************)
(* Inputs.                                                                 *)
(***************************************************************************)
Names == {"Alice", "Bob"}
Emails == {None, "a@x.com"}
Organizations == {None, "Org"}
Countries == {"US", "USA"}
Passwords == {None, "", "pw"}

PemPaths == {"c.pem", "k.pem"}
PdfPaths == {"in.pdf", "out.pdf"}
Paths == PemPaths \cup PdfPaths

\* the number of characters of a country input
CountryLen(c) == IF c = "US" THEN 2 ELSE 3

(***************************************************************************)
(* State.                                                                  *)
(***************************************************************************)
VARIABLES
    private_key,      \* PDFSigner.private_key
    certificate,      \* PDFSigner.certificate
    signature_info,   \* PDFSigner.signature_info
    files,            \* the file system: path -> content
    calls,            \* the number of generate and load calls made
    signs,            \* the number of sign_pdf calls that wrote a file
    origin,           \* history: the call that last assigned each field
    produced,         \* history: what sign_pdf wrote at each path
    last,             \* the last call and what it returned
    threads,          \* two threads on the manager: where each is in its call
    current_pdf,      \* PDFHandler.current_pdf
    current_pages,    \* PDFHandler.current_pages
    current_path,     \* PDFHandler.current_path
    file_stream,      \* PDFHandler.file_stream
    streams,          \* history: the file streams opened and not closed
    current_page,     \* ViewerTab.current_page
    search_results    \* ViewerTab.search_results

mgr == <<private_key, certificate, signature_info>>
handler_vars ==
    <<current_pdf, current_pages, current_path, file_stream, streams>>
viewer_vars == <<current_page, search_results>>
vars == <<private_key, certificate, signature_info, files, calls, signs,
          origin, produced, last, threads, handler_vars, viewer_vars>>

\* no thread is in a call
Idle == [pc |-> "idle"]
NoThreads == [w |-> Idle, r |-> Idle, overlap |-> FALSE, failed |-> FALSE,
              reads |-> 0]

NoPdf == [none |-> TRUE]
NoStream == [none |-> TRUE]

\* PDFHandler.__init__ and ViewerTab.__init__, and no thread in a call
Elsewhere ==
    /\ threads = NoThreads
    /\ current_pdf = NoPdf
    /\ current_pages = <<>>
    /\ current_path = None
    /\ file_stream = NoStream
    /\ streams = {}
    /\ current_page = 1
    /\ search_results = <<>>

(***************************************************************************)
(* Keys, certificates and files.                                           *)
(***************************************************************************)
\* the key pair rsa.generate_private_key returns in the n-th call: fresh
GeneratedKey(n) == [by |-> "generate", call |-> n]

\* x509.NameAttribute: ValueError unless the country has two characters
NameAttributesValid(common_name, country) == CountryLen(country) = 2

\* the subject built from the inputs of generate
SubjectComponents(common_name, email, organization, country) ==
    <<[oid |-> "COMMON_NAME", value |-> common_name],
      [oid |-> "COUNTRY_NAME", value |-> country]>>
    \o (IF Truthy(email)
        THEN <<[oid |-> "EMAIL_ADDRESS", value |-> email]>> ELSE <<>>)
    \o (IF Truthy(organization)
        THEN <<[oid |-> "ORGANIZATION_NAME", value |-> organization]>>
        ELSE <<>>)

\* a certificate: the public key it binds, its subject (the issuer is the
\* same) and its validity window, to the second
Certificate(key, subject, not_before, not_after) ==
    [pub |-> key, subject |-> subject,
     not_valid_before |-> strftime(not_before),
     not_valid_after |-> strftime(not_after)]

RECURSIVE FirstValue(_, _, _)
FirstValue(name, oid, i) ==
    IF i > Len(name) THEN "Not specified"
    ELSE IF name[i].oid = oid THEN name[i].value
    ELSE FirstValue(name, oid, i + 1)

\* the value of the first attribute of the name with this oid
_get_name_attribute(name, oid) == FirstValue(name, oid, 1)

Absent == [kind |-> "absent"]
\* a file opened for writing whose write did not complete
Partial == [kind |-> "partial"]
\* the PEM encoding of a certificate
CertFile(cert) == [kind |-> "cert", cert |-> cert]
\* the PEM/PKCS8 encoding of a private key, encrypted under enc unless None
KeyFile(key, enc) == [kind |-> "key", key |-> key, enc |-> enc]
PdfFile(pages, metadata) ==
    [kind |-> "pdf", pages |-> pages, metadata |-> metadata]

\* os.path.exists
Exists(path) == files[path] # Absent

\* a certificate and key kept from an earlier session
EarlierKey == [by |-> "earlier", call |-> 0]
EarlierCert ==
    Certificate(EarlierKey,
                <<[oid |-> "COMMON_NAME", value |-> "Carol"],
                  [oid |-> "COUNTRY_NAME", value |-> "US"]>>,
                [year |-> 2023, rest |-> 1, us |-> 0],
                [year |-> 2024, rest |-> 1, us |-> 0])

\* the pages of an unsigned document of n pages
RECURSIVE PlainPages(_)
PlainPages(n) ==
    IF n = 0 THEN <<>>
    ELSE Append(PlainPages(n - 1), [id |-> n, overlays |-> 0])

NoResult == [none |-> TRUE]
NotProduced == [none |-> TRUE]

Last(op, ret, path, out, result) ==
    [op |-> op, ret |-> ret, path |-> path, out |-> out, result |-> result]

(***************************************************************************)
(* PDFSigner.__init__, and the files present when the session starts: the  *)
(* certificate and key of an earlier session (or none) and a document      *)
(* in.pdf of some pages with some metadata.                                *)
(***************************************************************************)
Start(pems, page_counts, metadatas) ==
    /\ private_key = NoKey
    /\ certificate = NoCert
    /\ signature_info = EmptyDict
    /\ \E pem \in pems, n \in page_counts, metadata \in metadatas :
          files = [p \in Paths |->
                     CASE p = "c.pem" ->
                            IF pem THEN CertFile(EarlierCert) ELSE Absent
                       [] p = "k.pem" ->
                            IF pem THEN KeyFile(EarlierKey, "pw") ELSE Absent
                       [] p = "in.pdf" -> PdfFile(PlainPages(n), metadata)
                       [] OTHER -> Absent]
    /\ calls = 0
    /\ signs = 0
    /\ origin = [key |-> 0, cert |-> 0, info |-> 0]
    /\ produced = [p \in PdfPaths |-> NotProduced]
    /\ last = Last("init", TRUE, None, None, NoResult)
    /\ Elsewhere

(***************************************************************************)
(* generate_self_signed_certificate.  t1..t4 are the four clock reads:     *)
(* not_valid_before (t1), the datetime whose year is replaced (t2), the    *)
(* year that is incremented (t3) and 'created' (t4).                       *)
(***************************************************************************)
\* a faulty variant for claim C13: the entries are merged into the
\* dictionary held (dict.update) instead of replacing it
GeneratedInfo_updated(common_name, email, organization, country, created, cert) ==
    [common_name |-> common_name,
     email |-> IF Truthy(email) THEN email ELSE "Not specified",
     organization |->
         IF Truthy(organization) THEN organization ELSE "Not specified",
     country |-> country,
     created |-> strftime(created),
     valid_until |-> cert.not_valid_after] @@ signature_info

\* lines 105-112
GeneratedInfo(common_name, email, organization, country, created, cert) ==
    [common_name |-> common_name,
     email |-> IF Truthy(email) THEN email ELSE "Not specified",
     organization |->
         IF Truthy(organization) THEN organization ELSE "Not specified",
     country |-> country,
     created |-> strftime(created),
     valid_until |-> cert.not_valid_after]

Generate(common_name, email, organization, country, t1, t2, t3, t4) ==
    /\ calls' = calls + 1
    /\ LET key == GeneratedKey(calls + 1)
           expiry == replace_year(t2, t3.year + 1)
           built == NameAttributesValid(common_name, country) /\ expiry.ok
           cert == Certificate(key,
                     SubjectComponents(common_name, email, organization,
                                       country),
                     t1, expiry.value)
       IN  /\ private_key' = key
           /\ IF built
              THEN /\ certificate' = cert
                   /\ signature_info' =
                        GeneratedInfo(common_name, email, organization,
                                      country, t4, cert)
                   /\ origin' = [key |-> calls + 1, cert |-> calls + 1,
                                 info |-> calls + 1]
              ELSE /\ UNCHANGED <<certificate, signature_info>>
                   /\ origin' = [origin EXCEPT !.key = calls + 1]
           /\ last' = Last("generate", built, None, None,
                           [common_name |-> common_name, email |-> email,
                            organization |-> organization,
                            country |-> country])
    /\ UNCHANGED <<files, signs, produced>>
    /\ UNCHANGED <<threads, handler_vars, viewer_vars>>

(***************************************************************************)
(* load_certificate_from_file                                              *)
(***************************************************************************)
\* x509.load_pem_x509_certificate on the bytes of the file: raises unless
\* the file exists and holds a PEM certificate
CertificateReadable(path) == files[path].kind = "cert"

\* a faulty variant for claim C17: a wrong password does not make the read
\* of the key fail
PrivateKeyReadable_unchecked(path, password) == files[path].kind = "key"

\* serialization.load_pem_private_key(key_data, password): raises unless the
\* file holds a PEM key and the password is the one it is encrypted under
\* (None for an unencrypted key: a password given for it is a TypeError)
PrivateKeyReadable(path, password) ==
    /\ files[path].kind = "key"
    /\ password = files[path].enc

\* a faulty variant for claim C12: the common name is stored under the key
\* 'name'
LoadedInfo_name(cert) ==
    [name |-> _get_name_attribute(cert.subject, "COMMON_NAME"),
     email |-> _get_name_attribute(cert.subject, "EMAIL_ADDRESS"),
     organization |->
         _get_name_attribute(cert.subject, "ORGANIZATION_NAME"),
     country |-> _get_name_attribute(cert.subject, "COUNTRY_NAME"),
     valid_from |-> cert.not_valid_before,
     valid_until |-> cert.not_valid_after]

\* lines 147-155
LoadedInfo(cert) ==
    [common_name |-> _get_name_attribute(cert.subject, "COMMON_NAME"),
     email |-> _get_name_attribute(cert.subject, "EMAIL_ADDRESS"),
     organization |->
         _get_name_attribute(cert.subject, "ORGANIZATION_NAME"),
     country |-> _get_name_attribute(cert.subject, "COUNTRY_NAME"),
     valid_from |-> cert.not_valid_before,
     valid_until |-> cert.not_valid_after]

Load(cert_path, key_path, password) ==
    /\ calls' = calls + 1
    /\ IF ~CertificateReadable(cert_path)
       THEN /\ UNCHANGED <<private_key, certificate, signature_info, origin>>
            /\ last' = Last("load", FALSE, cert_path, key_path,
                            [password |-> password])
       ELSE /\ certificate' = files[cert_path].cert
            /\ IF ~PrivateKeyReadable(key_path, password)
               THEN /\ UNCHANGED <<private_key, signature_info>>
                    /\ origin' = [origin EXCEPT !.cert = calls + 1]
                    /\ last' = Last("load", FALSE, cert_path, key_path,
                                    [password |-> password])
               ELSE /\ private_key' = files[key_path].key
                    /\ signature_info' = LoadedInfo(certificate')
                    /\ origin' = [key |-> calls + 1, cert |-> calls + 1,
                                  info |-> calls + 1]
                    /\ last' = Last("load", TRUE, cert_path, key_path,
                                    [password |-> password])
    /\ UNCHANGED <<files, signs, produced>>
    /\ UNCHANGED <<threads, handler_vars, viewer_vars>>

(***************************************************************************)
(* save_certificate.  io names the open that fails, if one does.           *)
(***************************************************************************)
IoSave == {"ok", "cert_open_fails", "key_open_fails"}

\* lines 195-197
EncryptionAlgorithm(password) == IF Truthy(password) THEN password ELSE None

\* a faulty variant for claim C11: refuses only when both the certificate
\* and the key are missing
SaveRefused_both == certificate = NoCert /\ private_key = NoKey

\* line 187
SaveRefused == certificate = NoCert \/ private_key = NoKey

\* a faulty variant for claim C27: the key file is written first and the
\* certificate file second
Save_keyfirst(cert_path, key_path, password, io) ==
    /\ IF SaveRefused \/ io = "key_open_fails"
       THEN /\ UNCHANGED files
            /\ last' = Last("save", FALSE, cert_path, key_path,
                            [password |-> password])
       ELSE LET written == [files EXCEPT ![key_path] =
                              KeyFile(private_key,
                                      EncryptionAlgorithm(password))]
            IN  IF io = "cert_open_fails"
                THEN /\ files' = written
                     /\ last' = Last("save", FALSE, cert_path, key_path,
                                     [password |-> password])
                ELSE /\ files' = [written EXCEPT ![cert_path] =
                                    CertFile(certificate)]
                     /\ last' = Last("save", TRUE, cert_path, key_path,
                                     [password |-> password])
    /\ UNCHANGED <<private_key, certificate, signature_info, calls, signs,
                   origin, produced>>
    /\ UNCHANGED <<threads, handler_vars, viewer_vars>>

Save(cert_path, key_path, password, io) ==
    /\ IF SaveRefused \/ io = "cert_open_fails"
       THEN /\ UNCHANGED files
            /\ last' = Last("save", FALSE, cert_path, key_path,
                            [password |-> password])
       ELSE LET written == [files EXCEPT ![cert_path] = CertFile(certificate)]
            IN  IF io = "key_open_fails"
                THEN /\ files' = written
                     /\ last' = Last("save", FALSE, cert_path, key_path,
                                     [password |-> password])
                ELSE /\ files' = [written EXCEPT ![key_path] =
                                    KeyFile(private_key,
                                            EncryptionAlgorithm(password))]
                     /\ last' = Last("save", TRUE, cert_path, key_path,
                                     [password |-> password])
    /\ UNCHANGED <<private_key, certificate, signature_info, calls, signs,
                   origin, produced>>
    /\ UNCHANGED <<threads, handler_vars, viewer_vars>>

(***************************************************************************)
(* get_certificate_info and is_certificate_loaded                          *)
(***************************************************************************)
get_certificate_info ==
    IF certificate = NoCert THEN EmptyDict ELSE signature_info

is_certificate_loaded == certificate # NoCert /\ private_key # NoKey

GetCertificateInfo ==
    /\ last' = Last("get_certificate_info", TRUE, None, None,
                    get_certificate_info)
    /\ UNCHANGED <<private_key, certificate, signature_info, files, calls,
                   signs, origin, produced>>
    /\ UNCHANGED <<threads, handler_vars, viewer_vars>>

IsCertificateLoaded ==
    /\ last' = Last("is_certificate_loaded", is_certificate_loaded, None,
                    None, NoResult)
    /\ UNCHANGED <<private_key, certificate, signature_info, files, calls,
                   signs, origin, produced>>
    /\ UNCHANGED <<threads, handler_vars, viewer_vars>>

(***************************************************************************)
(* sign_pdf.  A page is its identity and the number of overlays merged     *)
(* onto it; the metadata is a dictionary.  salt is the random salt of the  *)
(* PSS padding, now the clock read of the modification date, io the step   *)
(* of file input and output that fails, if one does.                       *)
(***************************************************************************)
Producer == "Thomson PDF Generator Digital Signature"
Creator == "Thomson PDF Generator"

Positions == {None, "xy", "malformed"}
Salts == {1, 2}
IoSign == {"ok", "hash_read_fails", "open_fails", "write_fails"}

\* a faulty variant of the check for claim C3: refuses only when both the
\* key and the certificate are missing
SignRefused_both == private_key = NoKey /\ certificate = NoCert

\* line 227
SignRefused == private_key = NoKey \/ certificate = NoCert

\* _create_signature_overlay: 'x, y = position' raises unless the position
\* is None or a pair
OverlayRenders(position) == position # "malformed"

\* PyPDF2.PdfReader(file) and its pages: raises unless the file is a PDF
PdfReadable(path) == files[path].kind = "pdf"

\* lines 250-258: every page is added, the overlay merged onto the last
AddAllPages(pages) ==
    [i \in 1..Len(pages) |->
        IF i = Len(pages)
        THEN [pages[i] EXCEPT !.overlays = pages[i].overlays + 1]
        ELSE pages[i]]

\* an RSA-PSS signature: made with a key over a content with a fresh salt
PssSign(key, content, salt) == [key |-> key, over |-> content, salt |-> salt]
EmptyBytes == [key |-> NoKey, over |-> Absent, salt |-> 0]

\* a faulty variant for claim C9: the content is read from a stream that is
\* already at its end, so the signature is over no bytes
_create_document_hash_exhausted(pdf_path, salt, io) ==
    IF io = "hash_read_fails" THEN EmptyBytes
    ELSE PssSign(private_key, Absent, salt)

\* a faulty variant for claim C16: the source is read after the output path
\* was opened for writing, so a document signed in place is read truncated
_create_document_hash_truncated(pdf_path, salt, io) ==
    IF io = "hash_read_fails" THEN EmptyBytes
    ELSE PssSign(private_key, Partial, salt)

\* _create_document_hash: b'' when reading or signing raises
_create_document_hash(pdf_path, salt, io) ==
    IF io = "hash_read_fails" THEN EmptyBytes
    ELSE PssSign(private_key, files[pdf_path], salt)

b64encode(bytes) == [b64 |-> bytes]

\* Path(pdf_path).stem
Stem(path) ==
    CASE path = "in.pdf" -> "in"
      [] path = "out.pdf" -> "out"
      [] OTHER -> path

\* lines 261-269
SignatureMetadata(pdf_path, salt, io, now) ==
    ("/Title" :> <<"Signed PDF - ", Stem(pdf_path)>>)
    @@ ("/Author" :> Get(signature_info, "common_name", "Unknown"))
    @@ ("/Subject" :> "Digitally Signed Document")
    @@ ("/Creator" :> Creator)
    @@ ("/Producer" :> Producer)
    @@ ("/ModDate" :> [text |-> "D:", at |-> strftime(now)])
    @@ ("/Signature" :> b64encode(_create_document_hash(pdf_path, salt, io)))

\* the common name the SignatureInfo holds, None when it holds none
HeldCommonName == Get(signature_info, "common_name", None)

\* a faulty variant for claim C26: the output path is opened for writing
\* before the overlay is made and the source is read, so a failure of those
\* steps leaves an output that was opened and not written
Sign_openfirst(pdf_path, output_path, position, salt, io, now) ==
    /\ signs < MaxSigns
    /\ LET out == IF output_path = None THEN pdf_path ELSE output_path
           fail == Last("sign", FALSE, pdf_path, out, NoResult)
       IN  IF SignRefused \/ ~Exists(pdf_path) \/ io = "open_fails"
           THEN /\ UNCHANGED <<files, signs, produced>>
                /\ last' = fail
           ELSE IF \/ ~OverlayRenders(position)
                   \/ ~PdfReadable(pdf_path)
                   \/ out = pdf_path
                   \/ io = "write_fails"
           THEN /\ files' = [files EXCEPT ![out] = Partial]
                /\ signs' = signs + 1
                /\ produced' = [produced EXCEPT ![out] = NotProduced]
                /\ last' = fail
           ELSE /\ files' = [files EXCEPT ![out] =
                               PdfFile(AddAllPages(files[pdf_path].pages),
                                       SignatureMetadata(pdf_path, salt, io,
                                                         now))]
                /\ signs' = signs + 1
                /\ produced' = [produced EXCEPT ![out] =
                                  [source |-> files[pdf_path],
                                   key |-> private_key,
                                   certificate |-> certificate,
                                   common_name |-> HeldCommonName,
                                   altered |-> FALSE]]
                /\ last' = Last("sign", TRUE, pdf_path, out, NoResult)
    /\ UNCHANGED <<private_key, certificate, signature_info, calls, origin>>
    /\ UNCHANGED <<threads, handler_vars, viewer_vars>>

Sign(pdf_path, output_path, position, salt, io, now) ==
    /\ signs < MaxSigns
    /\ LET out == IF output_path = None THEN pdf_path ELSE output_path
           fail == Last("sign", FALSE, pdf_path, out, NoResult)
       IN  IF \/ SignRefused
              \/ ~Exists(pdf_path)
              \/ ~OverlayRenders(position)
              \/ ~PdfReadable(pdf_path)
              \/ io = "open_fails"
           THEN /\ UNCHANGED <<files, signs, produced>>
                /\ last' = fail
           ELSE IF io = "write_fails"
           THEN /\ files' = [files EXCEPT ![out] = Partial]
                /\ signs' = signs + 1
                /\ produced' = [produced EXCEPT ![out] = NotProduced]
                /\ last' = fail
           ELSE /\ files' = [files EXCEPT ![out] =
                               PdfFile(AddAllPages(files[pdf_path].pages),
                                       SignatureMetadata(pdf_path, salt, io,
                                                         now))]
                /\ signs' = signs + 1
                /\ produced' = [produced EXCEPT ![out] =
                                  [source |-> files[pdf_path],
                                   key |-> private_key,
                                   certificate |-> certificate,
                                   common_name |-> HeldCommonName,
                                   altered |-> FALSE]]
                /\ last' = Last("sign", TRUE, pdf_path, out, NoResult)
    /\ UNCHANGED <<private_key, certificate, signature_info, calls, origin>>
    /\ UNCHANGED <<threads, handler_vars, viewer_vars>>

(***************************************************************************)
(* verify_signature                                                        *)
(***************************************************************************)
\* a faulty variant for claim C18: no error is set for a document that has a
\* signature entry
VerificationResult_unset(is_signed, is_valid, signer, signature_date, error) ==
    [is_signed |-> is_signed, is_valid |-> is_valid, signer |-> signer,
     signature_date |-> signature_date,
     error |-> IF is_signed THEN None ELSE error]

VerificationResult(is_signed, is_valid, signer, signature_date, error) ==
    [is_signed |-> is_signed, is_valid |-> is_valid, signer |-> signer,
     signature_date |-> signature_date, error |-> error]

UnknownDate == [text |-> "Unknown"]

\* a faulty variant for claim C5: any metadata counts as a signature
HasSignatureField_any(metadata) == DOMAIN metadata # {}

\* line 367
HasSignatureField(metadata) == "/Signature" \in DOMAIN metadata

\* a faulty variant for claim C6: a missing producer entry defaults to the
\* tool's own
ProducerRecognized_default(metadata) ==
    Get(metadata, "/Producer", Producer) = Producer

\* a faulty variant for claim C15: the signature must also have been made
\* with the key the manager holds
ProducerRecognized_held(metadata) ==
    /\ Get(metadata, "/Producer", None) = Producer
    /\ metadata["/Signature"].b64.key = private_key

\* line 373
ProducerRecognized(metadata) == Get(metadata, "/Producer", None) = Producer

verify_signature(pdf_path) ==
    IF ~Exists(pdf_path)
    THEN VerificationResult(FALSE, FALSE, "Unknown", UnknownDate,
                            "PDF file not found")
    ELSE IF ~PdfReadable(pdf_path)
    THEN VerificationResult(FALSE, FALSE, "Unknown", UnknownDate,
                            "Error verifying signature")
    ELSE LET metadata == files[pdf_path].metadata
         IN  IF DOMAIN metadata = {}
             THEN VerificationResult(FALSE, FALSE, "Unknown", UnknownDate,
                                     "No metadata found in PDF")
             ELSE IF ~HasSignatureField(metadata)
             THEN VerificationResult(FALSE, FALSE, "Unknown", UnknownDate,
                                     "No digital signature found")
             ELSE VerificationResult(
                      TRUE, ProducerRecognized(metadata),
                      Get(metadata, "/Author", "Unknown"),
                      Get(metadata, "/ModDate", UnknownDate),
                      IF ProducerRecognized(metadata) THEN None
                      ELSE "Signature format not recognized")

\* a faulty variant for claim C14: the document verified is recorded in the
\* SignatureInfo
Verify_recording(pdf_path) ==
    /\ last' = Last("verify", TRUE, pdf_path, None,
                    verify_signature(pdf_path))
    /\ signature_info' = ("last_verified" :> pdf_path) @@ signature_info
    /\ UNCHANGED <<private_key, certificate, files, calls, signs, origin,
                   produced>>
    /\ UNCHANGED <<threads, handler_vars, viewer_vars>>

Verify(pdf_path) ==
    /\ last' = Last("verify", TRUE, pdf_path, None,
                    verify_signature(pdf_path))
    /\ UNCHANGED <<private_key, certificate, signature_info, files, calls,
                   signs, origin, produced>>
    /\ UNCHANGED <<threads, handler_vars, viewer_vars>>

(***************************************************************************)
(* The environment: another program rewrites or removes the producer       *)
(* entry of a document that sign_pdf wrote.                                *)
(***************************************************************************)
OtherProducers == {None, "Other Tool"}

AlterProducer(path, producer) ==
    /\ produced[path] # NotProduced
    /\ ~produced[path].altered
    /\ LET metadata == files[path].metadata
           altered ==
               IF producer = None
               THEN [k \in DOMAIN metadata \ {"/Producer"} |-> metadata[k]]
               ELSE [metadata EXCEPT !["/Producer"] = producer]
       IN  files' = [files EXCEPT ![path].metadata = altered]
    /\ produced' = [produced EXCEPT ![path].altered = TRUE]
    /\ last' = Last("alter", TRUE, path, None, NoResult)
    /\ UNCHANGED <<private_key, certificate, signature_info, calls, signs,
                   origin>>
    /\ UNCHANGED <<threads, handler_vars, viewer_vars>>

(***************************************************************************)
(* The specifications.  Spec is the signing session: generate and load     *)
(* with one subject and the clock reads of a call all on one instant, and  *)
(* sign_pdf with every input.  SpecCert is the certificate lifecycle with  *)
(* every subject, path and password.  SpecClock lets the clock advance     *)
(* between the clock reads of generate.  SpecVerify is verification of     *)
(* documents of this and other programs.                                   *)
(***************************************************************************)
Noon == [year |-> 2024, rest |-> 1, us |-> 0]

Init == Start({TRUE}, {0, 1, MaxPages}, {("/Title" :> "Report")})

\* the place of an instant among the instants in the order of time
Rank(t) == Cardinality({u \in Instants : NotAfter(u, t)})

\* the instants a clock that read t can read next: not earlier, and at most
\* MaxDrift instants later than start
From(t, start) ==
    {u \in Instants : NotAfter(t, u) /\ Rank(u) - Rank(start) <= MaxDrift}

Next ==
    \/ /\ calls < MaxCalls
       /\ \E country \in Countries :
             Generate("Alice", None, None, country, Noon, Noon, Noon, Noon)
    \/ /\ calls < MaxCalls
       /\ \E password \in {None, "pw"} : Load("c.pem", "k.pem", password)
    \* the salt is drawn only by a call that gets as far as signing the bytes
    \/ \E pdf_path \in PdfPaths, output_path \in PdfPaths \cup {None},
          salt \in Salts :
          Sign(pdf_path, output_path, "xy", salt, "ok", Noon)
    \/ \E pdf_path \in PdfPaths, output_path \in PdfPaths \cup {None},
          io \in IoSign \ {"ok"} :
          Sign(pdf_path, output_path, "xy", 1, io, Noon)
    \/ \E pdf_path \in PdfPaths, output_path \in PdfPaths \cup {None} :
          Sign(pdf_path, output_path, "malformed", 1, "ok", Noon)

Spec == Init /\ [][Next]_vars

\* the certificate lifecycle
Feb29 == [year |-> 2024, rest |-> 0, us |-> 0]

InitCert == Start(BOOLEAN, {1}, {EmptyDict})

NextCert ==
    \/ /\ calls < MaxCertCalls
       /\ \E common_name \in Names, email \in Emails,
             organization \in Organizations, country \in Countries,
             t \in {Noon, Feb29} :
             Generate(common_name, email, organization, country, t, t, t, t)
    \/ /\ calls < MaxCertCalls
       /\ \E cert_path \in PemPaths, key_path \in PemPaths,
             password \in Passwords :
             Load(cert_path, key_path, password)
    \/ \E password \in Passwords, io \in IoSave :
          Save("c.pem", "k.pem", password, io)
    \/ GetCertificateInfo
    \/ IsCertificateLoaded

SpecCert == InitCert /\ [][NextCert]_vars

\* generate under a clock that advances between its reads
NextClock ==
    \/ /\ calls < MaxCalls
       /\ \E common_name \in Names, country \in Countries, t1 \in Instants :
             \E t2 \in From(t1, t1) : \E t3 \in From(t2, t1) :
             \E t4 \in From(t3, t1) :
                Generate(common_name, None, None, country, t1, t2, t3, t4)
    \/ GetCertificateInfo

SpecClock == InitCert /\ [][NextClock]_vars

\* documents of other programs, signing, and edits of the producer entry
ForeignSignature == b64encode(PssSign(EarlierKey, Absent, 1))

ForeignMetadata ==
    {("/Author" :> "Mallory") @@ ("/Producer" :> producer)
       @@ ("/Signature" :> ForeignSignature) :
       producer \in {"Other Tool", Producer}}

InitVerify ==
    Start({FALSE}, {1},
          {EmptyDict, ("/Title" :> "Report")} \cup ForeignMetadata)

NextVerify ==
    \/ /\ calls < MaxCalls
       /\ Generate("Alice", None, None, "US", Noon, Noon, Noon, Noon)
    \/ \E pdf_path \in PdfPaths, output_path \in PdfPaths \cup {None},
          io \in IoSign :
          Sign(pdf_path, output_path, None, 1, io, Noon)
    \/ \E pdf_path \in PdfPaths : Verify(pdf_path)
    \/ \E path \in PdfPaths, producer \in OtherProducers :
          AlterProducer(path, producer)

SpecVerify == InitVerify /\ [][NextVerify]_vars

\* every operation of the manager in one session, each with few inputs
InitAll == Start(BOOLEAN, {1}, {("/Title" :> "Report")})

NextAll ==
    \/ /\ calls < MaxCalls
       /\ \E country \in Countries :
             Generate("Alice", None, None, country, Noon, Noon, Noon, Noon)
    \/ /\ calls < MaxCalls
       /\ \E password \in {None, "pw"} : Load("c.pem", "k.pem", password)
    \/ \E password \in {None, "pw"}, io \in IoSave :
          Save("c.pem", "k.pem", password, io)
    \/ \E pdf_path \in PdfPaths, io \in IoSign :
          Sign(pdf_path, "out.pdf", None, 1, io, Noon)
    \/ \E pdf_path \in PdfPaths :
          Sign(pdf_path, None, "malformed", 1, "ok", Noon)
    \/ \E pdf_path \in PdfPaths : Verify(pdf_path)
    \/ GetCertificateInfo
    \/ IsCertificateLoaded

SpecAll == InitAll /\ [][NextAll]_vars

(***************************************************************************)
(* FileUtils (src/utils/file_utils.py).  A path is the sequence of its     *)
(* characters.                                                             *)
(***************************************************************************)
SUPPORTED_EXTENSIONS ==
    (<<".", "t", "x", "t">> :> "text/plain")
    @@ (<<".", "d", "o", "c">> :> "application/msword")
    @@ (<<".", "d", "o", "c", "x">> :>
         "application/vnd.openxmlformats-officedocument.wordprocessingml.document")
    @@ (<<".", "x", "l", "s", "x">> :>
         "application/vnd.openxmlformats-officedocument.spreadsheetml.sheet")
    @@ (<<".", "p", "n", "g">> :> "image/png")
    @@ (<<".", "j", "p", "g">> :> "image/jpeg")
    @@ (<<".", "j", "p", "e", "g">> :> "image/jpeg")
    @@ (<<".", "g", "i", "f">> :> "image/gif")
    @@ (<<".", "b", "m", "p">> :> "image/bmp")
    @@ (<<".", "p", "d", "f">> :> "application/pdf")

\* str.split(sep)
RECURSIVE Split(_, _)
Split(s, sep) ==
    IF s = <<>> THEN << <<>> >>
    ELSE LET rest == Split(Tail(s), sep)
         IN  IF Head(s) = sep THEN << <<>> >> \o rest
             ELSE << <<Head(s)>> \o rest[1] >> \o Tail(rest)

\* Path(file_path).parts: the components between slashes, the empty ones
\* and the '.' ones dropped (a leading slash is no name)
IsComponent(c) == c # <<>> /\ c # <<".">>

PathParts(file_path) == SelectSeq(Split(file_path, "/"), IsComponent)

\* Path(file_path).name: the final component, '' when there is none
PathName(file_path) ==
    LET parts == PathParts(file_path)
    IN  IF parts = <<>> THEN <<>> ELSE parts[Len(parts)]

\* str.rfind(ch) from position i down, counted from 1: 0 when not found
RECURSIVE rfind(_, _, _)
rfind(s, ch, i) ==
    IF i = 0 THEN 0
    ELSE IF s[i] = ch THEN i
    ELSE rfind(s, ch, i - 1)

\* a faulty variant for claim C20: the extension is taken from the first
\* dot of the name
suffix_first(file_path) ==
    LET name == PathName(file_path)
        dots == {i \in 1..Len(name) : name[i] = "."}
        i == IF dots = {} THEN 0
             ELSE CHOOSE d \in dots : \A e \in dots : d <= e
    IN  IF 1 < i /\ i < Len(name) THEN SubSeq(name, i, Len(name)) ELSE <<>>

\* Path(file_path).suffix: the name from its last dot on, '' when the name
\* has no dot, starts with its only dot or ends with the dot
suffix(file_path) ==
    LET name == PathName(file_path)
        i == rfind(name, ".", Len(name))
    IN  IF 1 < i /\ i < Len(name) THEN SubSeq(name, i, Len(name)) ELSE <<>>

\* str.lower() on the characters of the paths of the model
LowerChar(c) ==
    CASE c = "T" -> "t" [] c = "X" -> "x" [] c = "P" -> "p" [] c = "D" -> "d"
      [] c = "J" -> "j" [] c = "G" -> "g" [] OTHER -> c

lower(s) == [i \in 1..Len(s) |-> LowerChar(s[i])]

is_supported_file(file_path) ==
    lower(suffix(file_path)) \in DOMAIN SUPPORTED_EXTENSIONS

\* dict.get(extension): None when the extension is no key
get_file_type(file_path) ==
    LET extension == lower(suffix(file_path))
    IN  IF extension \in DOMAIN SUPPORTED_EXTENSIONS
        THEN SUPPORTED_EXTENSIONS[extension] ELSE None

\* the paths the two functions are applied to: a directory part, a stem, an
\* ending and a trailing part
PathPrefixes ==
    {<<>>, <<"/">>, <<"d", "/">>, <<"d", ".", "t", "x", "t", "/">>,
     <<".", "/">>}

PathStems ==
    {<<>>, <<"a">>, <<"a", ".", "b">>, <<".">>, <<"a", ".", "p", "d", "f">>}

PathEndings ==
    {<<>>, <<".">>, <<".", "t", "x", "t">>, <<".", "T", "X", "T">>,
     <<".", "P", "d", "f">>, <<".", "p", "d", "f">>, <<".", "d", "o", "c">>,
     <<".", "d", "o", "c", "x">>, <<".", "D", "o", "c", "X">>,
     <<".", "x", "l", "s", "x">>, <<".", "p", "n", "g">>,
     <<".", "j", "p", "g">>, <<".", "j", "p", "e", "g">>,
     <<".", "J", "P", "G">>, <<".", "g", "i", "f">>, <<".", "b", "m", "p">>,
     <<".", "x", "y", "z">>, <<".", "p", "d">>, <<".", "p", "d", "f", "x">>,
     <<"p", "d", "f">>}

PathTrailers ==
    {<<>>, <<"/">>, <<"/", ".">>}

FilePaths ==
    {a \o b \o c \o d : a \in PathPrefixes, b \in PathStems,
                        c \in PathEndings, d \in PathTrailers}

\* one call of each function on the path drawn when the session starts
IsSupportedFile ==
    /\ last.op = "path"
    /\ last' = Last("is_supported_file", is_supported_file(last.path),
                    last.path, None, NoResult)
    /\ UNCHANGED <<private_key, certificate, signature_info, files, calls,
                   signs, origin, produced>>
    /\ UNCHANGED <<threads, handler_vars, viewer_vars>>

GetFileType ==
    /\ last.op \in {"path", "is_supported_file"}
    /\ last' = Last("get_file_type", TRUE, last.path, None,
                    [mime |-> get_file_type(last.path)])
    /\ UNCHANGED <<private_key, certificate, signature_info, files, calls,
                   signs, origin, produced>>
    /\ UNCHANGED <<threads, handler_vars, viewer_vars>>

InitFile ==
    /\ private_key = NoKey
    /\ certificate = NoCert
    /\ signature_info = EmptyDict
    /\ files = [p \in Paths |-> Absent]
    /\ calls = 0
    /\ signs = 0
    /\ origin = [key |-> 0, cert |-> 0, info |-> 0]
    /\ produced = [p \in PdfPaths |-> NotProduced]
    /\ \E file_path \in FilePaths :
          last = Last("path", TRUE, file_path, None, NoResult)
    /\ Elsewhere

NextFile ==
    \/ IsSupportedFile
    \/ GetFileType

SpecFile == InitFile /\ [][NextFile]_vars

\* get_safe_filename.  A filename is the sequence of its characters.
invalid_chars == <<"<", ">", ":", "\"", "/", "\\", "|", "?", "*">>

\* a faulty variant for claim C21: str.replace(old, new, 1), which replaces
\* the first occurrence only
replace_first(s, old, new) ==
    [i \in 1..Len(s) |->
        IF s[i] = old /\ \A j \in 1..(i - 1) : s[j] # old THEN new
        ELSE s[i]]

\* str.replace(old, new) for a one-character old and new
replace(s, old, new) ==
    [i \in 1..Len(s) |-> IF s[i] = old THEN new ELSE s[i]]

\* the loop of lines 59-61 from the k-th invalid character on
RECURSIVE ReplaceFrom(_, _)
ReplaceFrom(safe_name, k) ==
    IF k > Len(invalid_chars) THEN safe_name
    ELSE ReplaceFrom(replace(safe_name, invalid_chars[k], "_"), k + 1)

get_safe_filename(filename) == ReplaceFrom(filename, 1)

NameChars == {invalid_chars[k] : k \in 1..Len(invalid_chars)}
                \cup {"a", "_", "."}

RECURSIVE NamesOfLen(_)
NamesOfLen(n) ==
    IF n = 0 THEN {<<>>}
    ELSE {Append(name, c) : name \in NamesOfLen(n - 1), c \in NameChars}

Filenames == UNION {NamesOfLen(n) : n \in 0..MaxNameLen}

\* a call on the filename drawn when the session starts, and a call on the
\* name that call returned
GetSafeFilename ==
    /\ last.op = "filename"
    /\ last' = Last("get_safe_filename", TRUE, last.path, None,
                    [name |-> get_safe_filename(last.path)])
    /\ UNCHANGED <<private_key, certificate, signature_info, files, calls,
                   signs, origin, produced>>
    /\ UNCHANGED <<threads, handler_vars, viewer_vars>>

GetSafeFilenameAgain ==
    /\ last.op = "get_safe_filename"
    /\ last' = Last("get_safe_filename_again", TRUE, last.result.name,
                    last.path,
                    [name |-> get_safe_filename(last.result.name)])
    /\ UNCHANGED <<private_key, certificate, signature_info, files, calls,
                   signs, origin, produced>>
    /\ UNCHANGED <<threads, handler_vars, viewer_vars>>

InitName ==
    /\ private_key = NoKey
    /\ certificate = NoCert
    /\ signature_info = EmptyDict
    /\ files = [p \in Paths |-> Absent]
    /\ calls = 0
    /\ signs = 0
    /\ origin = [key |-> 0, cert |-> 0, info |-> 0]
    /\ produced = [p \in PdfPaths |-> NotProduced]
    /\ \E filename \in Filenames :
          last = Last("filename", TRUE, filename, None, NoResult)
    /\ Elsewhere

NextName ==
    \/ GetSafeFilename
    \/ GetSafeFilenameAgain

SpecName == InitName /\ [][NextName]_vars

(***************************************************************************)
(* Two threads on one PDFSigner, no lock.  The writer thread runs          *)
(* generate_self_signed_certificate and the reader thread save_certificate *)
(* and sign_pdf; a step is the code between two accesses of the fields of  *)
(* the manager that another thread can come between.  threads.w and        *)
(* threads.r are the positions of the two threads, threads.overlap tells   *)
(* that a thread took a step while the other one was inside a call, and    *)
(* threads.failed that a call returned False.                              *)
(***************************************************************************)
\* line 49: the key is assigned
BeginGenerate(country) ==
    /\ threads.w = Idle
    /\ calls' = calls + 1
    /\ private_key' = GeneratedKey(calls + 1)
    /\ origin' = [origin EXCEPT !.key = calls + 1]
    /\ threads' = [threads EXCEPT !.w = [pc |-> "subject",
                                         country |-> country],
                                  !.overlap = @ \/ threads.r # Idle]
    /\ UNCHANGED <<certificate, signature_info, files, signs, produced, last>>
    /\ UNCHANGED <<handler_vars, viewer_vars>>

\* lines 55-102: the subject is built and the certificate assigned, over
\* the public key of the key held (line 74); the except branch of 116-118
GenerateCertificate ==
    /\ threads.w.pc = "subject"
    /\ IF NameAttributesValid("Bob", threads.w.country)
       THEN /\ certificate' =
                 Certificate(private_key,
                             SubjectComponents("Bob", None, None,
                                               threads.w.country),
                             Noon, replace_year(Noon, Noon.year + 1).value)
            /\ origin' = [origin EXCEPT !.cert = calls]
            /\ threads' = [threads EXCEPT !.w.pc = "info",
                                          !.overlap = @ \/ threads.r # Idle]
            /\ UNCHANGED last
       ELSE /\ UNCHANGED <<certificate, origin>>
            /\ threads' = [threads EXCEPT !.w = Idle,
                                          !.failed = TRUE,
                                          !.overlap = @ \/ threads.r # Idle]
            /\ last' = Last("generate", FALSE, None, None,
                            [common_name |-> "Bob", email |-> None,
                             organization |-> None,
                             country |-> threads.w.country])
    /\ UNCHANGED <<private_key, signature_info, files, calls, signs, produced>>
    /\ UNCHANGED <<handler_vars, viewer_vars>>

\* a faulty variant for claim C22: generate returns without storing the
\* signature info of the new certificate
GenerateInfo_stale ==
    /\ threads.w.pc = "info"
    /\ threads' = [threads EXCEPT !.w = Idle,
                                  !.overlap = @ \/ threads.r # Idle]
    /\ last' = Last("generate", TRUE, None, None,
                    [common_name |-> "Bob", email |-> None,
                     organization |-> None, country |-> threads.w.country])
    /\ UNCHANGED <<private_key, certificate, signature_info, origin, files,
                   calls, signs, produced>>
    /\ UNCHANGED <<handler_vars, viewer_vars>>

\* lines 105-114: the signature info is assigned, with the expiry of the
\* certificate held (line 111)
GenerateInfo ==
    /\ threads.w.pc = "info"
    /\ signature_info' = GeneratedInfo("Bob", None, None, threads.w.country,
                                       Noon, certificate)
    /\ origin' = [origin EXCEPT !.info = calls]
    /\ threads' = [threads EXCEPT !.w = Idle,
                                  !.overlap = @ \/ threads.r # Idle]
    /\ last' = Last("generate", TRUE, None, None,
                    [common_name |-> "Bob", email |-> None,
                     organization |-> None, country |-> threads.w.country])
    /\ UNCHANGED <<private_key, certificate, files, calls, signs, produced>>
    /\ UNCHANGED <<handler_vars, viewer_vars>>

\* lines 187-192: the guard, then the certificate held is written
BeginSave ==
    /\ threads.r = Idle
    /\ threads.reads < MaxReads
    /\ IF SaveRefused
       THEN /\ UNCHANGED files
            /\ threads' = [threads EXCEPT !.reads = @ + 1,
                                          !.failed = TRUE,
                                          !.overlap = @ \/ threads.w # Idle]
            /\ last' = Last("save", FALSE, "c.pem", "k.pem",
                            [password |-> None])
       ELSE /\ files' = [files EXCEPT !["c.pem"] = CertFile(certificate)]
            /\ threads' = [threads EXCEPT !.r = [pc |-> "key"],
                                          !.reads = @ + 1,
                                          !.overlap = @ \/ threads.w # Idle]
            /\ UNCHANGED last
    /\ UNCHANGED <<private_key, certificate, signature_info, calls, signs,
                   origin, produced>>
    /\ UNCHANGED <<handler_vars, viewer_vars>>

\* lines 195-206: the key held is written
SaveKey ==
    /\ threads.r.pc = "key"
    /\ files' = [files EXCEPT !["k.pem"] =
                   KeyFile(private_key, EncryptionAlgorithm(None))]
    /\ threads' = [threads EXCEPT !.r = Idle,
                                  !.overlap = @ \/ threads.w # Idle]
    /\ last' = Last("save", TRUE, "c.pem", "k.pem", [password |-> None])
    /\ UNCHANGED <<private_key, certificate, signature_info, calls, signs,
                   origin, produced>>
    /\ UNCHANGED <<handler_vars, viewer_vars>>

\* lines 227-263: the guard, the overlay, the pages, and the author read
\* from the signature info held
BeginSign ==
    /\ threads.r = Idle
    /\ threads.reads < MaxReads
    /\ IF SignRefused \/ ~PdfReadable("in.pdf")
       THEN /\ threads' = [threads EXCEPT !.reads = @ + 1,
                                          !.failed = TRUE,
                                          !.overlap = @ \/ threads.w # Idle]
            /\ last' = Last("sign", FALSE, "in.pdf", "out.pdf", NoResult)
       ELSE /\ threads' = [threads EXCEPT
                             !.r = [pc |-> "hash",
                                    author |-> Get(signature_info,
                                                   "common_name", "Unknown")],
                             !.reads = @ + 1,
                             !.overlap = @ \/ threads.w # Idle]
            /\ UNCHANGED last
    /\ UNCHANGED <<private_key, certificate, signature_info, files, calls,
                   signs, origin, produced>>
    /\ UNCHANGED <<handler_vars, viewer_vars>>

\* lines 268-275: the signature is made with the key held and the output
\* written
SignWrite ==
    /\ threads.r.pc = "hash"
    /\ files' = [files EXCEPT !["out.pdf"] =
                   PdfFile(AddAllPages(files["in.pdf"].pages),
                           [SignatureMetadata("in.pdf", 1, "ok", Noon)
                              EXCEPT !["/Author"] = threads.r.author])]
    /\ produced' = [produced EXCEPT !["out.pdf"] =
                      [source |-> files["in.pdf"],
                       key |-> private_key,
                       certificate |-> certificate,
                       common_name |-> threads.r.author,
                       altered |-> FALSE]]
    /\ threads' = [threads EXCEPT !.r = Idle,
                                  !.overlap = @ \/ threads.w # Idle]
    /\ last' = Last("sign", TRUE, "in.pdf", "out.pdf", NoResult)
    /\ UNCHANGED <<private_key, certificate, signature_info, calls, signs,
                   origin>>
    /\ UNCHANGED <<handler_vars, viewer_vars>>

InitThreads == Start({TRUE}, {1}, {("/Title" :> "Report")})

NextThreads ==
    \/ /\ calls = 0
       /\ Generate("Alice", None, None, "US", Noon, Noon, Noon, Noon)
    \/ /\ calls = 0
       /\ Load("c.pem", "k.pem", "pw")
    \/ /\ calls \in 1..(MaxCertCalls - 1)
       /\ \E country \in Countries : BeginGenerate(country)
    \/ GenerateCertificate
    \/ GenerateInfo
    \/ /\ calls > 0
       /\ BeginSave
    \/ SaveKey
    \/ /\ calls > 0
       /\ BeginSign
    \/ SignWrite

SpecThreads == InitThreads /\ [][NextThreads]_vars

(***************************************************************************)
(* PDFHandler (src/core/pdf_handler.py).  file_stream is the open file     *)
(* object held, current_pdf the PdfReader made over it; streams is the set *)
(* of file objects that are open in the process.  The text of a page is a  *)
(* sequence of characters.                                                 *)
(***************************************************************************)
Texts == {<<>>, <<"x", "t">>, <<"t", "T", "t">>}
Terms == {<<>>, <<"t">>, <<"T">>, <<"t", "t">>}

TextPages(n, text) ==
    [i \in 1..n |-> [id |-> i, overlays |-> 0, text |-> text]]

IoOpen == {"ok", "open_fails"}

\* open(file_path, 'rb'): a file object that no open one is equal to
NewStream(file_path) ==
    [id |-> CHOOSE i \in 1..(Cardinality(streams) + 1) :
                \A st \in streams : st.id # i,
     path |-> file_path]

\* PyPDF2.PdfReader(stream): raises unless the file is a PDF document
PdfReader(stream) ==
    [stream |-> stream,
     pages |-> files[stream.path].pages,
     metadata |-> files[stream.path].metadata]

\* lines 36-46 run without an exception
OpenSucceeds(file_path, io) ==
    /\ Exists(file_path)
    /\ io = "ok"
    /\ files[file_path].kind = "pdf"

\* lines 351-359, as the set of file objects left open
Closed == IF file_stream # NoStream THEN streams \ {file_stream} ELSE streams

\* a faulty variant for claim C28: open_pdf does not close the document
\* that is open before it opens the next one
open_pdf_leaking(file_path, io) ==
    IF OpenSucceeds(file_path, io)
    THEN /\ file_stream' = NewStream(file_path)
         /\ streams' = streams \cup {NewStream(file_path)}
         /\ current_pdf' = PdfReader(NewStream(file_path))
         /\ current_pages' = <<>>
         /\ current_path' = file_path
    ELSE /\ file_stream' = NoStream
         /\ streams' = Closed
         /\ current_pdf' = NoPdf
         /\ current_pages' = <<>>
         /\ current_path' = None

\* lines 26-51.  A missing file raises before close_pdf (line 37), a file
\* that cannot be opened raises at line 42 after it, a file that is not
\* a PDF raises at line 43 with the new stream open; the except branch
\* closes whatever is open (line 50).
open_pdf(file_path, io) ==
    IF OpenSucceeds(file_path, io)
    THEN /\ file_stream' = NewStream(file_path)
         /\ streams' = Closed \cup {NewStream(file_path)}
         /\ current_pdf' = PdfReader(NewStream(file_path))
         /\ current_pages' = <<>>
         /\ current_path' = file_path
    ELSE /\ file_stream' = NoStream
         /\ streams' = Closed
         /\ current_pdf' = NoPdf
         /\ current_pages' = <<>>
         /\ current_path' = None

\* lines 351-359
close_pdf ==
    /\ file_stream' = NoStream
    /\ streams' = Closed
    /\ current_pdf' = NoPdf
    /\ current_pages' = <<>>
    /\ current_path' = None

\* lines 60-62
get_page_count == IF current_pdf # NoPdf THEN Len(current_pdf.pages) ELSE 0

\* lines 64-69
get_page_text(page_number) ==
    IF \/ current_pdf = NoPdf
       \/ page_number < 1
       \/ page_number > Len(current_pdf.pages)
    THEN <<>>
    ELSE current_pdf.pages[page_number].text

\* lines 77-114, but for file_size (the size of a file is not modelled)
get_pdf_info ==
    IF current_pdf = NoPdf THEN EmptyDict
    ELSE [pages |-> Len(current_pages),
          path |-> current_path,
          filename |-> current_path,
          title |-> Get(current_pdf.metadata, "/Title", "Unknown"),
          author |-> Get(current_pdf.metadata, "/Author", "Unknown"),
          subject |-> Get(current_pdf.metadata, "/Subject", "Unknown"),
          creator |-> Get(current_pdf.metadata, "/Creator", "Unknown"),
          producer |-> Get(current_pdf.metadata, "/Producer", "Unknown")]

\* str.find(sub, start), positions counted from 0
find(text, sub, start) ==
    LET found == {pos \in start..(Len(text) - Len(sub)) :
                    SubSeq(text, pos + 1, pos + Len(sub)) = sub}
    IN  IF found = {} THEN -1
        ELSE CHOOSE pos \in found : \A q \in found : pos <= q

ContextWidth == 50

\* lines 136-156: the results of one page, from position start on
RECURSIVE PageResults(_, _, _, _)
PageResults(number, page_text, search, start) ==
    LET pos == find(page_text, search, start)
    IN  IF pos = -1 THEN <<>>
        ELSE <<[page |-> number,
                position |-> pos,
                context |->
                    SubSeq(page_text,
                           IF pos - ContextWidth > 0
                           THEN pos - ContextWidth + 1 ELSE 1,
                           IF pos + Len(search) + ContextWidth
                                < Len(page_text)
                           THEN pos + Len(search) + ContextWidth
                           ELSE Len(page_text)),
                match |-> search]>>
             \o PageResults(number, page_text, search, pos + 1)

\* lines 133-156: the results of the pages from the i-th on
RECURSIVE ResultsFrom(_, _, _)
ResultsFrom(i, search, case_sensitive) ==
    IF i > Len(current_pages) THEN <<>>
    ELSE LET page_info == current_pages[i]
             page_text == IF case_sensitive THEN page_info.text
                          ELSE lower(page_info.text)
         IN  PageResults(page_info.number, page_text, search, 0)
               \o ResultsFrom(i + 1, search, case_sensitive)

\* lines 116-158
search_text(search_term, case_sensitive) ==
    IF current_pages = <<>> \/ search_term = <<>> THEN <<>>
    ELSE ResultsFrom(1,
                     IF case_sensitive THEN search_term
                     ELSE lower(search_term),
                     case_sensitive)

signer_vars ==
    <<private_key, certificate, signature_info, files, calls, signs, origin,
      produced, threads>>

OpenPdf(file_path, io) ==
    /\ open_pdf(file_path, io)
    /\ last' = Last("open_pdf", OpenSucceeds(file_path, io), file_path, None,
                    NoResult)
    /\ UNCHANGED <<signer_vars, viewer_vars>>

ClosePdf ==
    /\ close_pdf
    /\ last' = Last("close_pdf", TRUE, None, None, NoResult)
    /\ UNCHANGED <<signer_vars, viewer_vars>>

GetPageCount ==
    /\ last' = Last("get_page_count", TRUE, None, None,
                    [count |-> get_page_count])
    /\ UNCHANGED <<signer_vars, handler_vars, viewer_vars>>

GetPageText(page_number) ==
    /\ last' = Last("get_page_text", TRUE, None, None,
                    [page_number |-> page_number,
                     text |-> get_page_text(page_number)])
    /\ UNCHANGED <<signer_vars, handler_vars, viewer_vars>>

GetPdfInfo ==
    /\ last' = Last("get_pdf_info", TRUE, None, None, get_pdf_info)
    /\ UNCHANGED <<signer_vars, handler_vars, viewer_vars>>

SearchText(search_term) ==
    /\ last' = Last("search_text", TRUE, None, None,
                    [search_term |-> search_term,
                     results |-> search_text(search_term, FALSE)])
    /\ UNCHANGED <<signer_vars, handler_vars, viewer_vars>>

\* PDFHandler.__init__ (lines 20-24), and the files present: a document of
\* some pages, possibly a second one of one page, and a file that is not a
\* PDF document
StartHandler(page_counts, texts) ==
    /\ private_key = NoKey
    /\ certificate = NoCert
    /\ signature_info = EmptyDict
    /\ \E n \in page_counts, text \in texts, second \in BOOLEAN :
          files = [p \in Paths |->
                     CASE p = "c.pem" -> CertFile(EarlierCert)
                       [] p = "in.pdf" ->
                            PdfFile(TextPages(n, text),
                                    ("/Title" :> "Report"))
                       [] p = "out.pdf" ->
                            IF second
                            THEN PdfFile(TextPages(1, <<"t">>), EmptyDict)
                            ELSE Absent
                       [] OTHER -> Absent]
    /\ calls = 0
    /\ signs = 0
    /\ origin = [key |-> 0, cert |-> 0, info |-> 0]
    /\ produced = [p \in PdfPaths |-> NotProduced]
    /\ last = Last("init", TRUE, None, None, NoResult)
    /\ Elsewhere

InitHandler == StartHandler({0, 1, MaxPages}, Texts)

NextHandler ==
    \/ \E file_path \in {"in.pdf", "out.pdf", "c.pem"}, io \in IoOpen :
          OpenPdf(file_path, io)
    \/ ClosePdf
    \/ GetPageCount
    \/ \E page_number \in 0..(MaxPages + 1) : GetPageText(page_number)
    \/ GetPdfInfo
    \/ \E search_term \in Terms : SearchText(search_term)

SpecHandler == InitHandler /\ [][NextHandler]_vars

(***************************************************************************)
(* ViewerTab (src/gui/viewer_tab.py): the page shown and the results of    *)
(* the last search, over a PDFHandler.  What is typed in the page field is *)
(* a sequence of characters.  current_search_index, which no navigation    *)
(* reads, and the widgets are left out.                                    *)
(***************************************************************************)
DigitValue(c) ==
    CASE c = "0" -> 0 [] c = "1" -> 1 [] c = "2" -> 2 [] c = "3" -> 3
      [] c = "4" -> 4 [] c = "5" -> 5 [] c = "6" -> 6 [] c = "7" -> 7
      [] c = "8" -> 8 [] c = "9" -> 9

RECURSIVE Decimal(_)
Decimal(s) ==
    IF s = <<>> THEN 0
    ELSE Decimal(SubSeq(s, 1, Len(s) - 1)) * 10 + DigitValue(s[Len(s)])

\* str.strip
RECURSIVE strip(_)
strip(s) ==
    IF s = <<>> THEN s
    ELSE IF Head(s) = " " THEN strip(Tail(s))
    ELSE IF s[Len(s)] = " " THEN strip(SubSeq(s, 1, Len(s) - 1))
    ELSE s

\* int(str): blanks around, one optional sign, then digits; anything else
\* raises ValueError
int(s) ==
    LET t == strip(s)
        signed == t # <<>> /\ Head(t) \in {"+", "-"}
        digits == IF signed THEN Tail(t) ELSE t
    IN  IF /\ digits # <<>>
           /\ \A i \in 1..Len(digits) :
                 digits[i] \in {"0", "1", "2", "3", "4", "5", "6", "7", "8",
                                "9"}
        THEN [ok |-> TRUE,
              value |-> IF signed /\ Head(t) = "-" THEN 0 - Decimal(digits)
                        ELSE Decimal(digits)]
        ELSE [ok |-> FALSE, value |-> 0]

Typed ==
    {<<>>, <<"a">>, <<"0">>, <<"1">>, <<"2">>, <<"3">>, <<"4">>,
     <<"-", "1">>, <<" ", "2">>, <<"1", "0">>, <<"2", ".", "0">>}

Selections == {<<>>, <<0>>, <<1>>}

\* lines 284-298
LoadFile(file_path, io) ==
    /\ open_pdf(file_path, io)
    /\ current_page' = IF OpenSucceeds(file_path, io) THEN 1 ELSE current_page
    /\ last' = Last("load_file", OpenSucceeds(file_path, io), file_path, None,
                    NoResult)
    /\ UNCHANGED <<signer_vars, search_results>>

\* lines 383-388
FirstPage ==
    /\ current_page' = IF current_pdf # NoPdf /\ current_page > 1 THEN 1
                       ELSE current_page
    /\ last' = Last("first_page", TRUE, None, None, NoResult)
    /\ UNCHANGED <<signer_vars, handler_vars, search_results>>

\* lines 390-395
PrevPage ==
    /\ current_page' = IF current_pdf # NoPdf /\ current_page > 1
                       THEN current_page - 1
                       ELSE current_page
    /\ last' = Last("prev_page", TRUE, None, None, NoResult)
    /\ UNCHANGED <<signer_vars, handler_vars, search_results>>

\* lines 397-403
NextPage ==
    /\ current_page' = IF current_pdf # NoPdf /\ current_page < get_page_count
                       THEN current_page + 1
                       ELSE current_page
    /\ last' = Last("next_page", TRUE, None, None, NoResult)
    /\ UNCHANGED <<signer_vars, handler_vars, search_results>>

\* lines 405-411
LastPage ==
    /\ current_page' = IF current_pdf # NoPdf /\ current_page < get_page_count
                       THEN get_page_count
                       ELSE current_page
    /\ last' = Last("last_page", TRUE, None, None, NoResult)
    /\ UNCHANGED <<signer_vars, handler_vars, search_results>>

\* a faulty variant for claim C30: the range accepted starts at 0
PageInRange_zero(page_num, page_count) == 0 <= page_num /\ page_num <= page_count

\* line 419
PageInRange(page_num, page_count) == 1 <= page_num /\ page_num <= page_count

\* lines 413-429
GotoPage(typed) ==
    /\ current_page' =
          IF int(typed).ok /\ PageInRange(int(typed).value, get_page_count)
          THEN int(typed).value
          ELSE current_page
    /\ last' = Last("goto_page", TRUE, None, None, [typed |-> typed])
    /\ UNCHANGED <<signer_vars, handler_vars, search_results>>

\* lines 431-458
ViewerSearchText(typed) ==
    /\ search_results' =
          IF strip(typed) = <<>> \/ current_pdf = NoPdf THEN search_results
          ELSE search_text(strip(typed), FALSE)
    /\ last' = Last("viewer_search_text", TRUE, None, None,
                    [typed |-> typed])
    /\ UNCHANGED <<signer_vars, handler_vars, current_page>>

\* lines 461-470
GotoSearchResult(selection) ==
    /\ current_page' =
          IF /\ selection # <<>>
             /\ search_results # <<>>
             /\ 0 <= selection[1]
             /\ selection[1] < Len(search_results)
          THEN search_results[selection[1] + 1].page
          ELSE current_page
    /\ last' = Last("goto_search_result", TRUE, None, None,
                    [selection |-> selection])
    /\ UNCHANGED <<signer_vars, handler_vars, search_results>>

\* lines 638-643
Reset ==
    /\ close_pdf
    /\ current_page' = 1
    /\ search_results' = <<>>
    /\ last' = Last("reset", TRUE, None, None, NoResult)
    /\ UNCHANGED signer_vars

InitViewer == StartHandler({0, 1, MaxPages}, {<<"x", "t">>})

NextViewer ==
    \/ \E file_path \in {"in.pdf", "out.pdf", "c.pem"}, io \in IoOpen :
          LoadFile(file_path, io)
    \/ FirstPage
    \/ PrevPage
    \/ NextPage
    \/ LastPage
    \/ \E typed \in Typed : GotoPage(typed)
    \/ \E typed \in Terms \cup {<<" ">>} : ViewerSearchText(typed)
    \/ \E selection \in Selections : GotoSearchResult(selection)
    \/ Reset

SpecViewer == InitViewer /\ [][NextViewer]_vars

(***************************************************************************)
(* The claims.                                                             *)
(***************************************************************************)
IdentityKeys == {"common_name", "email", "organization", "country"}

\* C1: a load_certificate_from_file call that fails leaves the certificate,
\* the private key and the SignatureInfo exactly as they were before the
\* call.
C1_FailedLoadLeavesManager ==
    [][(last'.op = "load" /\ ~last'.ret) => UNCHANGED mgr]_vars

\* C2: whenever the manager holds a certificate and a private key, the key,
\* the certificate and the SignatureInfo were all assigned by the same
\* generate or load call.
C2_KeyBelongsToCertificate ==
    (private_key # NoKey /\ certificate # NoCert)
        => (origin.key = origin.cert /\ origin.info = origin.cert)

\* C3: a sign_pdf call made while no certificate and key are loaded returns
\* failure and changes no file: nothing is written at the output path and
\* the source document is as it was.
C3_SignWithoutCertificate ==
    [][(last'.op = "sign" /\ ~is_certificate_loaded)
          => (~last'.ret /\ files' = files)]_vars

C3_Witness ==
    /\ last.op = "sign"
    /\ ~is_certificate_loaded
    /\ private_key # NoKey
    /\ files[last.path].kind = "pdf"
    /\ ~last.ret

\* C4: verify_signature on every output that sign_pdf wrote reports
\* is_signed and is_valid, with the signer equal to the common name the
\* SignatureInfo held when the document was signed.
C4_SignedOutputVerifies ==
    \A p \in PdfPaths :
        (produced[p] # NotProduced /\ ~produced[p].altered)
            => LET result == verify_signature(p)
               IN  /\ result.is_signed
                   /\ result.is_valid
                   /\ result.signer = produced[p].common_name

\* C5: verify_signature on a document that sign_pdf never wrote and that is
\* missing, has no metadata, or has metadata without the signature entry
\* returns is_signed = false, is_valid = false and an error.
NeverSigned(path) ==
    /\ produced[path] = NotProduced
    /\ \/ files[path] = Absent
       \/ /\ files[path].kind = "pdf"
          /\ "/Signature" \notin DOMAIN files[path].metadata

C5_UnsignedDocumentNotSigned ==
    (last.op = "verify" /\ NeverSigned(last.path))
        => /\ ~last.result.is_signed
           /\ ~last.result.is_valid
           /\ last.result.error # None

C5_Witness ==
    /\ last.op = "verify"
    /\ NeverSigned(last.path)
    /\ last.result.error = "No digital signature found"

\* C6: verify_signature on a document sign_pdf wrote whose producer entry
\* was then changed to another value or removed returns is_signed = true,
\* is_valid = false and the error "Signature format not recognized".
C6_AlteredProducerRejected ==
    (/\ last.op = "verify"
     /\ produced[last.path] # NotProduced
     /\ produced[last.path].altered)
        => /\ last.result.is_signed
           /\ ~last.result.is_valid
           /\ last.result.error = "Signature format not recognized"

C6_Witness ==
    /\ last.op = "verify"
    /\ produced[last.path] # NotProduced
    /\ produced[last.path].altered
    /\ "/Producer" \notin DOMAIN files[last.path].metadata
    /\ last.result.error = "Signature format not recognized"

\* C7: after a successful generate, get_certificate_info has the common
\* name and country given, and a valid_until exactly one year after its
\* created, however the clock advances between the clock reads of generate.
C7_GeneratedInfoOneYear ==
    (last.op = "generate" /\ last.ret)
        => LET info == get_certificate_info
           IN  /\ info.common_name = last.result.common_name
               /\ info.country = last.result.country
               /\ info.valid_until = [year |-> info.created.year + 1,
                                      rest |-> info.created.rest]

\* C8: for a manager with a certificate and a key loaded, a successful
\* save_certificate followed by load_certificate_from_file on the same
\* files with the same password leaves a SignatureInfo with the common
\* name, email, organization and country it had before the save.
C8_SaveLoadRoundTrip ==
    [][(/\ last.op = "save" /\ last.ret
        /\ last'.op = "load"
        /\ last'.path = last.path /\ last'.out = last.out
        /\ last'.result.password = last.result.password)
          => \A k \in IdentityKeys :
                Get(signature_info', k, None) = Get(signature_info, k, None)
      ]_vars

\* C9 as stated: two outputs signed from the same input bytes with the same
\* certificate and key have equal producer and creator entries and equal
\* signature entries.
SameInput(p, q) ==
    /\ p # q
    /\ produced[p] # NotProduced /\ ~produced[p].altered
    /\ produced[q] # NotProduced /\ ~produced[q].altered
    /\ produced[p].source = produced[q].source
    /\ produced[p].key = produced[q].key
    /\ produced[p].certificate = produced[q].certificate

SameProducerAndCreator(p, q) ==
    /\ files[p].metadata["/Producer"] = files[q].metadata["/Producer"]
    /\ files[p].metadata["/Creator"] = files[q].metadata["/Creator"]

C9_SameBytesSameSignature ==
    \A p \in PdfPaths, q \in PdfPaths :
        SameInput(p, q)
            => /\ SameProducerAndCreator(p, q)
               /\ files[p].metadata["/Signature"]
                    = files[q].metadata["/Signature"]

\* C9 as amended: two outputs signed from the same input bytes with the
\* same certificate and key have equal producer and creator entries, and
\* the signature entry of each is empty or a signature made with that key
\* over those input bytes; the two signature entries need not be equal,
\* because every signature draws a fresh salt.
SignatureOverSource(p) ==
    LET signature == files[p].metadata["/Signature"].b64
    IN  \/ signature = EmptyBytes
        \/ /\ signature.key = produced[p].key
           /\ signature.over = produced[p].source

C9_SameProducerCreatorSaltedSignature ==
    \A p \in PdfPaths, q \in PdfPaths :
        SameInput(p, q)
            => /\ SameProducerAndCreator(p, q)
               /\ SignatureOverSource(p)
               /\ SignatureOverSource(q)

C9_Witness ==
    \E p \in PdfPaths, q \in PdfPaths :
        /\ SameInput(p, q)
        /\ files[p].metadata["/Signature"].b64 # EmptyBytes
        /\ files[q].metadata["/Signature"].b64 # EmptyBytes
        /\ files[p].metadata["/Signature"] # files[q].metadata["/Signature"]

\* C10: an output that sign_pdf wrote has the pages of its input, as many
\* and in the same order, with one overlay more on the last page and on no
\* other page, and an author entry equal to the common name the
\* SignatureInfo held.
PagesCopiedOverlayOnLast(source, output) ==
    /\ Len(output.pages) = Len(source.pages)
    /\ \A i \in 1..Len(source.pages) :
          /\ output.pages[i].id = source.pages[i].id
          /\ output.pages[i].overlays =
                source.pages[i].overlays
                  + (IF i = Len(source.pages) THEN 1 ELSE 0)

C10_PagesAndAuthor ==
    \A p \in PdfPaths :
        produced[p] # NotProduced
            => /\ PagesCopiedOverlayOnLast(produced[p].source, files[p])
               /\ files[p].metadata["/Author"] = produced[p].common_name

\* C11: a save_certificate call made while the manager lacks a certificate
\* or lacks a private key returns failure and writes neither the
\* certificate file nor the key file.
C11_SaveWithoutCertificate ==
    [][(last'.op = "save" /\ (certificate = NoCert \/ private_key = NoKey))
          => (~last'.ret /\ files' = files)]_vars

C11_Witness ==
    /\ last.op = "save"
    /\ certificate # NoCert
    /\ private_key = NoKey
    /\ ~last.ret

\* C12: a new manager reports is_certificate_loaded() = false; after every
\* successful generate or load it reports true and get_certificate_info()
\* carries the common name of that call; and once it reports true, no
\* operation, failed ones included, makes it report false again.
CommonNameOfCall(call, fs) ==
    IF call.op = "generate" THEN call.result.common_name
    ELSE _get_name_attribute(fs[call.path].cert.subject, "COMMON_NAME")

C12_EmptyToLoaded ==
    /\ ~is_certificate_loaded
    /\ [][/\ is_certificate_loaded => is_certificate_loaded'
          /\ (last'.op \in {"generate", "load"} /\ last'.ret)
                => /\ is_certificate_loaded'
                   /\ Get(get_certificate_info', "common_name", None)
                        = CommonNameOfCall(last', files)]_vars

C12_Witness ==
    /\ is_certificate_loaded
    /\ last.op \in {"generate", "load", "save", "sign"}
    /\ ~last.ret
    /\ Get(get_certificate_info, "common_name", None) = "Carol"

\* C13: after a successful generate or load the private key, the
\* certificate and the SignatureInfo are those of that call: the key and
\* certificate generated or read by it, and a SignatureInfo with exactly the
\* entries that call builds, none kept from the SignatureInfo before.
GeneratedKeys ==
    {"common_name", "email", "organization", "country", "created",
     "valid_until"}

LoadedKeys ==
    {"common_name", "email", "organization", "country", "valid_from",
     "valid_until"}

C13_ReplacedWholesale ==
    [][(last'.op \in {"generate", "load"} /\ last'.ret)
          => IF last'.op = "generate"
             THEN /\ private_key' = GeneratedKey(calls')
                  /\ certificate'.pub = private_key'
                  /\ DOMAIN signature_info' = GeneratedKeys
                  /\ \A k \in IdentityKeys \ {"email", "organization"} :
                        signature_info'[k] = last'.result[k]
                  /\ signature_info'.valid_until
                        = certificate'.not_valid_after
             ELSE /\ private_key' = files[last'.out].key
                  /\ certificate' = files[last'.path].cert
                  /\ DOMAIN signature_info' = LoadedKeys
                  /\ signature_info'.common_name
                        = _get_name_attribute(certificate'.subject,
                                              "COMMON_NAME")
                  /\ signature_info'.valid_from
                        = certificate'.not_valid_before
                  /\ signature_info'.valid_until
                        = certificate'.not_valid_after]_vars

C13_Witness ==
    /\ last.op = "generate" /\ last.ret
    /\ calls > 1
    /\ \E p \in PemPaths :
          /\ files[p].kind = "key"
          /\ files[p].key = EarlierKey
          /\ files[p].enc = None

\* C14: sign_pdf, verify_signature and save_certificate leave the
\* certificate, the private key and the SignatureInfo of the manager as
\* they were, when they succeed and when they fail.
C14_ManagerUnchanged ==
    [][last'.op \in {"sign", "verify", "save"} => UNCHANGED mgr]_vars

C14_Witness ==
    /\ is_certificate_loaded
    /\ last.op = "sign"
    /\ ~last.ret
    /\ files[last.out] = Partial

\* C15: the result of verify_signature depends only on the metadata of the
\* document: two documents whose metadata are equal but for the value of
\* the signature entry get equal results, whatever their pages and
\* signature bytes, and a step that changes no file, such as one that loads
\* a certificate into the manager or replaces it, changes no result.
SameMetadataButSignature(p, q) ==
    /\ PdfReadable(p) /\ PdfReadable(q)
    /\ DOMAIN files[p].metadata = DOMAIN files[q].metadata
    /\ \A k \in DOMAIN files[p].metadata \ {"/Signature"} :
          files[p].metadata[k] = files[q].metadata[k]

C15_VerifyDependsOnMetadataOnly ==
    [][/\ \A p \in PdfPaths, q \in PdfPaths :
             SameMetadataButSignature(p, q)'
                => verify_signature(p)' = verify_signature(q)'
       /\ files' = files
             => \A p \in PdfPaths :
                   verify_signature(p)' = verify_signature(p)]_vars

C15_Witness ==
    /\ last.op = "verify"
    /\ is_certificate_loaded
    /\ \E q \in PdfPaths :
          /\ q # last.path
          /\ SameMetadataButSignature(last.path, q)
          /\ files[last.path].pages # files[q].pages
          /\ files[last.path].metadata["/Signature"]
                # files[q].metadata["/Signature"]
          /\ last.result.is_valid

\* C16: the signature that a successful sign_pdf embeds is empty or made
\* with the held key over the content the source document had before the
\* call, also when the output path is the source path and the document is
\* overwritten by the call.
C16_SignatureOverOriginalBytes ==
    [][(last'.op = "sign" /\ last'.ret)
          => LET signature == files'[last'.out].metadata["/Signature"].b64
             IN  \/ signature = EmptyBytes
                 \/ /\ signature.over = files[last'.path]
                    /\ signature.key = private_key]_vars

C16_Witness ==
    /\ last.op = "sign" /\ last.ret
    /\ last.out = last.path
    /\ LET signature == files[last.out].metadata["/Signature"].b64
       IN  /\ signature # EmptyBytes
           /\ signature.over.kind = "pdf"
           /\ signature.over # files[last.path]

\* C17: every call of generate, load, save and sign returns a boolean, and
\* returns false when a step of it fails: a country that is no country
\* code, a missing or malformed certificate or key file, a wrong password,
\* no certificate or key to save or sign with, a missing or unreadable
\* source document, an output whose write failed and was not tried again.
\* Every call of verify returns a result, with an error and is_valid false
\* when the document is missing or unreadable.
LoadMustFail(call) ==
    \/ files[call.path].kind # "cert"
    \/ files[call.out].kind # "key"
    \/ files[call.out].enc # call.result.password

C17_FailuresAreReturned ==
    [][/\ last'.ret \in BOOLEAN
       /\ (last'.op = "generate" /\ CountryLen(last'.result.country) # 2)
             => ~last'.ret
       /\ (last'.op = "load" /\ LoadMustFail(last')) => ~last'.ret
       /\ (/\ last'.op \in {"save", "sign"}
           /\ (certificate = NoCert \/ private_key = NoKey)) => ~last'.ret
       /\ (last'.op = "sign" /\ files[last'.path].kind # "pdf")
             => ~last'.ret
       /\ (last'.op = "sign" /\ files'[last'.out] = Partial) => ~last'.ret
       /\ last'.op = "verify"
             => /\ DOMAIN last'.result
                    = {"is_signed", "is_valid", "signer", "signature_date",
                       "error"}
                /\ files[last'.path].kind # "pdf"
                      => /\ ~last'.result.is_valid
                         /\ last'.result.error # None]_vars

C17_Witness ==
    /\ last.op = "load"
    /\ ~last.ret
    /\ files[last.path].kind = "cert"
    /\ files[last.out].kind = "key"
    /\ files[last.out].enc # last.result.password

\* C18: every result that verify_signature returns has is_signed true and
\* no error when is_valid is true, and an error when is_valid is false.
C18_ResultWellFormed ==
    last.op = "verify"
        => /\ last.result.is_valid
                => (last.result.is_signed /\ last.result.error = None)
           /\ ~last.result.is_valid => last.result.error # None

C18_Witness ==
    /\ last.op = "verify"
    /\ last.result.is_signed
    /\ ~last.result.is_valid
    /\ last.result.error # None

\* C19: a successful save_certificate writes the private key unencrypted
\* exactly when the password is None, and for every password given, the
\* empty one included, encrypted under that password, so that the key file
\* can be read back with that password and with no other.
C19_KeyEncryptedUnderPassword ==
    (last.op = "save" /\ last.ret)
        => /\ files[last.out].enc = last.result.password
           /\ \A password \in Passwords :
                 PrivateKeyReadable(last.out, password)
                    <=> password = last.result.password

\* C20: is_supported_file(path) is true exactly when the final component of
\* the path ends, without regard to case, with one of the supported
\* extensions after a stem that is not empty; and get_file_type(path) is
\* the MIME type of that extension exactly then, and None otherwise.
EndsWithIgnoringCase(name, ext) ==
    /\ Len(name) > Len(ext)
    /\ \A i \in 1..Len(ext) :
          LowerChar(name[Len(name) - Len(ext) + i]) = ext[i]

SupportedExtensionsOf(file_path) ==
    {ext \in DOMAIN SUPPORTED_EXTENSIONS :
        EndsWithIgnoringCase(PathName(file_path), ext)}

C20_SupportedExactlyByExtension ==
    /\ last.op = "is_supported_file"
          => (last.ret <=> SupportedExtensionsOf(last.path) # {})
    /\ last.op = "get_file_type"
          => /\ last.result.mime # None <=> is_supported_file(last.path)
             /\ \A ext \in SupportedExtensionsOf(last.path) :
                   last.result.mime = SUPPORTED_EXTENSIONS[ext]
             /\ SupportedExtensionsOf(last.path) = {}
                   => last.result.mime = None

C20_Witness ==
    /\ last.op = "get_file_type"
    /\ last.result.mime = "application/pdf"
    /\ suffix(last.path) # lower(suffix(last.path))
    /\ Len(PathParts(last.path)) > 1

\* C21: get_safe_filename returns a name as long as the filename, with '_'
\* at every place where the filename has one of < > : " / \ | ? * and the
\* character of the filename at every other place; the name has none of
\* those characters, and get_safe_filename of that name is that name.
InvalidChars == {"<", ">", ":", "\"", "/", "\\", "|", "?", "*"}

C21_SafeFilename ==
    /\ last.op = "get_safe_filename"
          => LET name == last.result.name
             IN  /\ Len(name) = Len(last.path)
                 /\ \A i \in 1..Len(name) :
                       name[i] = IF last.path[i] \in InvalidChars THEN "_"
                                 ELSE last.path[i]
                 /\ \A i \in 1..Len(name) : name[i] \notin InvalidChars
    /\ last.op = "get_safe_filename_again"
          => last.result.name = last.path

C21_Witness ==
    /\ last.op = "get_safe_filename_again"
    /\ Len(last.out) = 3
    /\ last.out[1] = "<" /\ last.out[2] = "a" /\ last.out[3] = "<"
    /\ last.result.name = <<"_", "a", "_">>

\* C23: whenever sign_pdf returns success, the signature entry of the
\* output is not empty: it is a signature made with the held private key
\* over the content of the source.
C23_SuccessHasSignature ==
    [][(last'.op = "sign" /\ last'.ret)
          => LET signature == files'[last'.out].metadata["/Signature"].b64
             IN  /\ signature # EmptyBytes
                 /\ signature.key = private_key
                 /\ signature.over = files[last'.path]]_vars

\* C24: after a successful generate and after a successful load alike,
\* get_certificate_info returns the fields common name, email,
\* organization, country, created and valid until.
C24_SameFieldsGenerateAndLoad ==
    (last.op \in {"generate", "load"} /\ last.ret)
        => DOMAIN get_certificate_info
             = {"common_name", "email", "organization", "country",
                "created", "valid_until"}

\* C25: in every state, get_certificate_info returns a SignatureInfo that
\* is not empty exactly when is_certificate_loaded is true.
C25_InfoExactlyWhenLoaded ==
    DOMAIN get_certificate_info # {} <=> is_certificate_loaded

\* C26: a sign_pdf call that fails leaves every file as it was, but for a
\* failure of the final write, which leaves the output path opened and not
\* written; that happens only after the certificate check passed and the
\* source was read, so no failure of an earlier step changes the output
\* path or, for signing in place, the source.
C26_OnlyFinalWriteLeavesPartial ==
    [][(last'.op = "sign" /\ ~last'.ret)
          => \/ files' = files
             \/ /\ files' = [files EXCEPT ![last'.out] = Partial]
                /\ is_certificate_loaded
                /\ files[last'.path].kind = "pdf"]_vars

C26_Witness ==
    /\ last.op = "sign"
    /\ ~last.ret
    /\ last.out = last.path
    /\ is_certificate_loaded
    /\ files[last.path].kind = "pdf"

\* C27: a save_certificate call whose certificate file was written and
\* whose key file could not be opened returns failure, with the held
\* certificate at the certificate path in place of what was there and the
\* key path as it was; no failed save changes the key file.
C27_SaveDoesNotRollBack ==
    [][(last'.op = "save" /\ ~last'.ret)
          => \/ files' = files
             \/ files' = [files EXCEPT ![last'.path] =
                                          CertFile(certificate)]]_vars

C27_Witness ==
    /\ last.op = "save"
    /\ ~last.ret
    /\ files[last.path] = CertFile(certificate)
    /\ certificate # EarlierCert
    /\ files[last.out] = KeyFile(EarlierKey, "pw")

\* C28: between the calls of PDFHandler, file_stream, current_pdf and
\* current_path are all set or all unset, and at most one file object is
\* open, the one held; after a successful open_pdf it is a stream on the
\* path opened, and after a failed open_pdf the handler is closed and no
\* file object is open.
C28_HandlerAllOrNothing ==
    /\ (file_stream = NoStream) = (current_pdf = NoPdf)
    /\ (current_pdf = NoPdf) = (current_path = None)
    /\ Cardinality(streams) <= 1
    /\ streams = IF file_stream = NoStream THEN {} ELSE {file_stream}
    /\ (last.op = "open_pdf" /\ last.ret)
          => /\ current_path = last.path
             /\ file_stream.path = last.path
             /\ current_pdf.stream = file_stream
    /\ (last.op = "open_pdf" /\ ~last.ret)
          => /\ current_pdf = NoPdf
             /\ streams = {}

C28_Witness ==
    /\ last.op = "open_pdf"
    /\ ~last.ret
    /\ last.path = "c.pem"
    /\ current_pdf = NoPdf

\* the occurrences of a term in the text of the pages that get_page_text
\* returns, letter case ignored
Occurrences(search_term) ==
    UNION {{<<page_number, pos>> :
              pos \in {q \in 0..Len(get_page_text(page_number)) :
                         /\ q + Len(search_term)
                              <= Len(get_page_text(page_number))
                         /\ SubSeq(lower(get_page_text(page_number)),
                                   q + 1, q + Len(search_term))
                              = lower(search_term)}} :
           page_number \in 1..get_page_count}

\* C29: while a document is open, get_pdf_info()['pages'] equals
\* get_page_count(), and search_text of a term that is not empty returns
\* one result for every occurrence of the term in the text of the pages.
C29_PagesAndSearchAgree ==
    current_pdf # NoPdf
      => /\ last.op = "get_pdf_info"
              => last.result.pages = get_page_count
         /\ (last.op = "search_text" /\ last.result.search_term # <<>>)
              => Len(last.result.results)
                   = Cardinality(Occurrences(last.result.search_term))

\* C30: in the viewer, while a document of at least one page is open,
\* current_page is one of its pages; and a go-to-page whose input is not a
\* number, or is a number outside 1..page_count, leaves current_page as it
\* was.
C30_CurrentPageInRange ==
    /\ [](current_pdf # NoPdf /\ get_page_count >= 1
            => current_page \in 1..get_page_count)
    /\ [][(/\ last'.op = "goto_page"
           /\ \/ ~int(last'.result.typed).ok
              \/ int(last'.result.typed).value \notin 1..get_page_count)
             => current_page' = current_page]_vars

C30_Witness ==
    /\ last.op = "goto_page"
    /\ int(last.result.typed).ok
    /\ int(last.result.typed).value > get_page_count
    /\ current_pdf # NoPdf
    /\ current_page = 2

\* C22: while the calls of the two threads have not overlapped and none
\* has failed, every pair saved is a certificate and the key it binds, and
\* every document signed is signed with the key of the certificate whose
\* subject it names as author.  Calls that overlap reach states where this
\* is not so.
C22_SerializedCallsMatch ==
    (~threads.overlap /\ ~threads.failed /\ threads.r = Idle)
        => /\ (files["c.pem"].kind = "cert" /\ files["k.pem"].kind = "key")
                 => files["c.pem"].cert.pub = files["k.pem"].key
           /\ produced["out.pdf"] # NotProduced
                 => /\ files["out.pdf"].metadata["/Signature"].b64.key
                         = produced["out.pdf"].certificate.pub
                    /\ files["out.pdf"].metadata["/Author"]
                         = _get_name_attribute(
                              produced["out.pdf"].certificate.subject,
                              "COMMON_NAME")

C22_Witness ==
    /\ threads.overlap
    /\ ~threads.failed
    /\ threads.r = Idle
    /\ threads.w = Idle
    /\ files["c.pem"].kind = "cert"
    /\ files["k.pem"].kind = "key"
    /\ files["c.pem"].cert.pub # files["k.pem"].key
    /\ produced["out.pdf"] # NotProduced
    /\ files["out.pdf"].metadata["/Signature"].b64.key
          = produced["out.pdf"].certificate.pub
    /\ files["out.pdf"].metadata["/Author"]
          # _get_name_attribute(produced["out.pdf"].certificate.subject,
                                "COMMON_NAME")

====
